---- MODULE Spec2Model ----
(***************************************************************************)
(* A model of anonymize.py: the DICOM field anonymiser, the DICOMDIR       *)
(* traversal, the directory walk and the command-line entry point, over a  *)
(* small file system.  A path is a sequence of names, a file is a record   *)
(* holding a DICOM data set (a function from the tags present to values).  *)
(***************************************************************************)
EXTENDS Integers, Sequences, FiniteSets, TLC

VARIABLES files, dirs, argc, input_path, output_path, pc, mode, err, exitcode,
          dicom_dir, dicomdir_dirname, i, paths, stack, curDir, curFiles,
          files0, dirs0, run, prevOut, call

vars == <<files, dirs, argc, input_path, output_path, pc, mode, err, exitcode,
          dicom_dir, dicomdir_dirname, i, paths, stack, curDir, curFiles,
          files0, dirs0, run, prevOut, call>>

\* Bounds of the model: patient records per index, image records per index.
MaxPatients == 2
MaxImages == 2

----------------------------------------------------------------------------
\* Strings and paths

REMOVED == "REMOVED"
DOB == "99991231"
DICOMDIR == "DICOMDIR"

Digit(d) == CASE d = 0 -> "0" [] d = 1 -> "1" [] d = 2 -> "2" [] d = 3 -> "3"
              [] d = 4 -> "4" [] d = 5 -> "5" [] d = 6 -> "6" [] d = 7 -> "7"
              [] d = 8 -> "8" [] d = 9 -> "9"

\* Python's str(n) for n >= 0: the decimal digits of n.
RECURSIVE str(_)
str(n) == IF n < 10 THEN Digit(n) ELSE str(n \div 10) \o Digit(n % 10)

\* The path as the string the program handles, components joined by "/".
RECURSIVE PathStr(_)
PathStr(p) == IF p = <<>> THEN ""
              ELSE IF Len(p) = 1 THEN p[1]
              ELSE PathStr(SubSeq(p, 1, Len(p) - 1)) \o "/" \o p[Len(p)]

\* fname[-len(s):] == s
EndsWith(fname, s) ==
    Len(fname) >= Len(s) /\ SubSeq(fname, Len(fname) - Len(s) + 1, Len(fname)) = s

\* os.path.split: (dirname, basename)
Dirname(p) == IF p = <<>> THEN <<>> ELSE SubSeq(p, 1, Len(p) - 1)
Basename(p) == p[Len(p)]

IsPrefix(p, q) == Len(p) <= Len(q) /\ SubSeq(q, 1, Len(p)) = p
\* os.path.relpath(q, p) for q at or under p
Relpath(q, p) == SubSeq(q, Len(p) + 1, Len(q))
Prefixes(p) == {SubSeq(p, 1, n) : n \in 0..Len(p)}

----------------------------------------------------------------------------
\* The file system

exists(p) == p \in dirs \/ p \in DOMAIN files
isdir(p) == p \in dirs
isfile(p) == p \in DOMAIN files

\* The entries of a directory, as os.scandir lists them.
dirnamesOf(d) == {q \in dirs : Len(q) = Len(d) + 1 /\ IsPrefix(d, q)}
filenamesOf(d) == {q \in DOMAIN files : Len(q) = Len(d) + 1 /\ IsPrefix(d, q)}

\* os.makedirs(p, exist_ok=True): creates the missing ancestors one by one and
\* fails at the first component that is a regular file.
MakedirsOK(fs, p) == \A q \in Prefixes(p) : q \notin DOMAIN fs
MakedirsDirs(fs, ds, p) ==
    ds \cup {q \in Prefixes(p) : \A r \in Prefixes(q) : r \notin DOMAIN fs}

\* open(p, "wb"), as save_as does: the parent must be a directory and p itself
\* must not be one.
SaveOK(ds, p) == p # <<>> /\ Dirname(p) \in ds /\ p \notin ds
WriteFile(fs, p, c) == [q \in DOMAIN fs \cup {p} |-> IF q = p THEN c ELSE fs[q]]

\* shutil.rmtree(p)
RmtreeFiles(fs, p) == [q \in {r \in DOMAIN fs : ~IsPrefix(p, r)} |-> fs[q]]
RmtreeDirs(ds, p) == {q \in ds : ~IsPrefix(p, q)}

FilesUnder(fs, p) == {q \in DOMAIN fs : IsPrefix(p, q)}

----------------------------------------------------------------------------
\* DICOM data sets

PatientTags == {"PatientID", "PatientName", "PatientBirthDate"}
InstitutionTags == {"InstitutionName", "InstitutionAddress", "StationName"}
OptionalTags == {"T0008_0090", "T0008_1048", "T0032_1032"}
OtherTags == {"StudyInstanceUID"}
AllTags == PatientTags \cup InstitutionTags \cup OptionalTags \cup OtherTags

NoDs == [t \in {} |-> ""]
Image(ds) == [kind |-> "image", ds |-> ds, patients |-> <<>>]
Index(ps) == [kind |-> "dicomdir", ds |-> NoDs, patients |-> ps]
Junk == [kind |-> "junk", ds |-> NoDs, patients |-> <<>>]

SetTag(ds, t, v) == [u \in DOMAIN ds \cup {t} |-> IF u = t THEN v ELSE ds[u]]

\* instance[tag].value = v for each tag of ts that is in the data set
SetPresent(ds, ts, v) == [u \in DOMAIN ds |-> IF u \in ts THEN v ELSE ds[u]]

\* A call's outcome: the instance returned, or the exception raised.
Return(c) == [ok |-> TRUE, err |-> "none", instance |-> c]
Raise(e) == [ok |-> FALSE, err |-> e, instance |-> Junk]

\* dcmread: any DICOM file (a DICOMDIR is one) is read, anything else raises.
dcmread(c) == IF c.kind = "junk" THEN Raise("InvalidDicomError") ELSE Return(c)

\* read_dicomdir: only a DICOMDIR is accepted.
read_dicomdir(c) == IF c.kind = "dicomdir" THEN Return(c) ELSE Raise("InvalidDicomError")

\* A variant of SetElement that appends to the value instead of replacing it.
SetElement_append(r, t, v) ==
    IF ~r.ok THEN r
    ELSE IF t \notin DOMAIN r.instance.ds THEN Raise("KeyError")
    ELSE Return([r.instance EXCEPT !.ds = SetTag(r.instance.ds, t, r.instance.ds[t] \o v)])

\* A variant of SetElement that creates the element when it is missing.
SetElement_create(r, t, v) ==
    IF ~r.ok THEN r
    ELSE Return([r.instance EXCEPT !.ds = SetTag(r.instance.ds, t, v)])

\* instance.data_element(t).value = v: raises when the tag is not in the data set.
SetElement(r, t, v) ==
    IF ~r.ok THEN r
    ELSE IF t \notin DOMAIN r.instance.ds THEN Raise("KeyError")
    ELSE Return([r.instance EXCEPT !.ds = SetTag(r.instance.ds, t, v)])

\* if tag in instance: instance[tag].value = v
SetIfPresent(r, t, v) ==
    IF ~r.ok THEN r
    ELSE Return([r.instance EXCEPT !.ds = SetPresent(r.instance.ds, {t}, v)])

\* A variant of anonymiseImageFile that leaves the birth date as it is.
anonymiseImageFile_keepBirthDate(c, PatientID, PatientName, PatientBirthDate) ==
    LET r0 == dcmread(c)
        r1 == SetElement(r0, "PatientID", PatientID)
        r2 == SetElement(r1, "PatientName", PatientName)
        r4 == SetElement(r2, "InstitutionName", REMOVED)
        r5 == SetElement(r4, "InstitutionAddress", REMOVED)
        r6 == SetElement(r5, "StationName", REMOVED)
        r7 == SetIfPresent(r6, "T0008_0090", REMOVED)
        r8 == SetIfPresent(r7, "T0008_1048", REMOVED)
        r9 == SetIfPresent(r8, "T0032_1032", REMOVED)
    IN  r9

anonymiseImageFile(c, PatientID, PatientName, PatientBirthDate) ==
    LET r0 == dcmread(c)
        r1 == SetElement(r0, "PatientID", PatientID)
        r2 == SetElement(r1, "PatientName", PatientName)
        r3 == SetElement(r2, "PatientBirthDate", PatientBirthDate)
        r4 == SetElement(r3, "InstitutionName", REMOVED)
        r5 == SetElement(r4, "InstitutionAddress", REMOVED)
        r6 == SetElement(r5, "StationName", REMOVED)
        r7 == SetIfPresent(r6, "T0008_0090", REMOVED)
        r8 == SetIfPresent(r7, "T0008_1048", REMOVED)
        r9 == SetIfPresent(r8, "T0032_1032", REMOVED)
    IN  r9

----------------------------------------------------------------------------
\* The DICOMDIR hierarchy

NoRef == [vm |-> 0, value |-> "", values |-> <<>>]
Ref1(s) == [vm |-> 1, value |-> s, values |-> <<>>]
RefN(ss) == [vm |-> Len(ss), value |-> "", values |-> ss]
Node(t, cs) == [type |-> t, children |-> cs, ref |-> NoRef]
ImageNode(t, e) == [type |-> t, children |-> <<>>, ref |-> e]

RECURSIVE Flatten(_)
Flatten(ss) == IF ss = <<>> THEN <<>> ELSE Head(ss) \o Flatten(Tail(ss))

ChildrenOfType(rec, t) == SelectSeq(rec.children, LAMBDA c : c.type = t)

\* [ee.value] if ee.VM == 1 else ee.value; Path(*p)
RefPath(e) == IF e.vm = 1 THEN <<e.value>> ELSE e.values

SeriesPaths(series) ==
    LET images == ChildrenOfType(series, "IMAGE")
    IN  [k \in 1..Len(images) |-> RefPath(images[k].ref)]

StudyPaths(study) ==
    LET all_series == ChildrenOfType(study, "SERIES")
    IN  Flatten([k \in 1..Len(all_series) |-> SeriesPaths(all_series[k])])

\* The image paths of a patient record, in the order the nested loops reach them.
PatientPaths(patient) ==
    LET studies == ChildrenOfType(patient, "STUDY")
    IN  Flatten([k \in 1..Len(studies) |-> StudyPaths(studies[k])])

\* A variant of new_ID that numbers the only patient of an index as well.
new_ID_numbered(n, npat) == IF npat >= 1 THEN "REMOVED - " \o str(n) ELSE REMOVED

\* The replacement identity of the patient record at ordinal n of npat.
new_ID(n, npat) == IF npat > 1 THEN "REMOVED - " \o str(n) ELSE REMOVED
new_name(n, npat) == IF npat > 1 THEN "REMOVED - " \o str(n) ELSE REMOVED
new_dob == DOB

----------------------------------------------------------------------------
\* Steps of one run of main()

Abort(e) == pc' = "aborted" /\ err' = e /\ exitcode' = 1

isDICOMDIR(fname) == EndsWith(PathStr(fname), DICOMDIR) /\ isfile(fname)

NoCall == [made |-> FALSE, arg |-> Junk, ok |-> FALSE, instance |-> Junk]
Called(c, r) == [made |-> TRUE, arg |-> c, ok |-> r.ok, instance |-> r.instance]

\* len(sys.argv) < 3: print the usage and sys.exit(1)
Usage ==
    /\ pc = "start" /\ argc < 3
    /\ pc' = "exited" /\ exitcode' = 1
    /\ UNCHANGED <<files, dirs, argc, input_path, output_path, mode, err, dicom_dir,
                   dicomdir_dirname, i, paths, stack, curDir, curFiles, files0, dirs0, run,
                   prevOut, call>>

\* The error checks, the removal of an existing output directory and the
\* creation of the output directory.
Preflight ==
    /\ pc = "start" /\ argc >= 3
    /\ IF ~exists(input_path) THEN
          Abort("IOError") /\ UNCHANGED <<files, dirs>>
       ELSE IF exists(output_path) /\ ~isdir(output_path) THEN
          Abort("IOError") /\ UNCHANGED <<files, dirs>>
       ELSE
          LET f1 == IF exists(output_path) THEN RmtreeFiles(files, output_path) ELSE files
              d1 == IF exists(output_path) THEN RmtreeDirs(dirs, output_path) ELSE dirs
          IN  /\ files' = f1
              /\ dirs' = MakedirsDirs(f1, d1, output_path)
              /\ IF MakedirsOK(f1, output_path)
                 THEN pc' = "dispatch" /\ UNCHANGED <<err, exitcode>>
                 ELSE Abort("FileExistsError")
    /\ UNCHANGED <<argc, input_path, output_path, mode, dicom_dir, dicomdir_dirname,
                   i, paths, stack, curDir, curFiles, files0, dirs0, run, prevOut, call>>

\* The first lines of anonymiseDICOMDIR: load the index, split its path.
LoadDICOMDIR(fname) ==
    LET r == read_dicomdir(files[fname])
    IN  /\ IF r.ok THEN
              /\ dicom_dir' = r.instance.patients
              /\ dicomdir_dirname' = Dirname(fname)
              /\ pc' = IF Len(r.instance.patients) = 0 THEN "save" ELSE "patient"
              /\ UNCHANGED <<err, exitcode>>
           ELSE
              /\ Abort(r.err)
              /\ UNCHANGED <<dicom_dir, dicomdir_dirname>>
        /\ i' = 0 /\ paths' = <<>>

IsIndexFile == isDICOMDIR(input_path) /\ isfile(input_path)
IsIndexDir == isdir(input_path) /\ isDICOMDIR(input_path \o <<DICOMDIR>>)
IsPlainDir == isdir(input_path) /\ ~isDICOMDIR(input_path \o <<DICOMDIR>>)
IsSingleFile == isfile(input_path)

DispatchIndexFile ==
    /\ pc = "dispatch" /\ IsIndexFile
    /\ mode' = "index_file"
    /\ LoadDICOMDIR(input_path)
    /\ UNCHANGED <<files, dirs, argc, input_path, output_path, stack, curDir, curFiles,
                   files0, dirs0, run, prevOut, call>>

DispatchIndexDir ==
    /\ pc = "dispatch" /\ ~IsIndexFile /\ IsIndexDir
    /\ mode' = "index_dir"
    /\ LoadDICOMDIR(input_path \o <<DICOMDIR>>)
    /\ UNCHANGED <<files, dirs, argc, input_path, output_path, stack, curDir, curFiles,
                   files0, dirs0, run, prevOut, call>>

DispatchDirectory ==
    /\ pc = "dispatch" /\ ~IsIndexFile /\ ~IsIndexDir /\ IsPlainDir
    /\ mode' = "directory"
    /\ stack' = <<input_path>>
    /\ pc' = "walk"
    /\ UNCHANGED <<files, dirs, argc, input_path, output_path, err, exitcode, dicom_dir,
                   dicomdir_dirname, i, paths, curDir, curFiles, files0, dirs0, run, prevOut, call>>

DispatchSingleFile ==
    /\ pc = "dispatch" /\ ~IsIndexFile /\ ~IsIndexDir /\ ~IsPlainDir /\ IsSingleFile
    /\ mode' = "single"
    /\ LET r == anonymiseImageFile(files[input_path], REMOVED, REMOVED, DOB)
       IN  /\ call' = Called(files[input_path], r)
           /\ IF ~r.ok THEN
                 Abort(r.err) /\ UNCHANGED <<files>>
              ELSE IF ~SaveOK(dirs, output_path) THEN
                 Abort("IsADirectoryError") /\ UNCHANGED <<files>>
              ELSE
                 /\ files' = WriteFile(files, output_path, r.instance)
                 /\ pc' = "done" /\ exitcode' = 0 /\ UNCHANGED err
    /\ UNCHANGED <<dirs, argc, input_path, output_path, dicom_dir, dicomdir_dirname, i,
                   paths, stack, curDir, curFiles, files0, dirs0, run, prevOut>>

DispatchUnsupported ==
    /\ pc = "dispatch" /\ ~IsIndexFile /\ ~IsIndexDir /\ ~IsPlainDir /\ ~IsSingleFile
    /\ mode' = "unsupported"
    /\ Abort("IOError")
    /\ UNCHANGED <<files, dirs, argc, input_path, output_path, dicom_dir,
                   dicomdir_dirname, i, paths, stack, curDir, curFiles, files0, dirs0, run,
                   prevOut, call>>

\* Where the patient loop goes once the images of patient n are done.
NextPatient(n) ==
    /\ i' = n + 1
    /\ pc' = IF n + 1 < Len(dicom_dir) THEN "patient" ELSE "save"

\* One iteration of the PATIENT loop, up to the image loop: read the old
\* identity, overwrite it, collect the image paths of the patient.
PatientStep ==
    /\ pc = "patient"
    /\ LET patient == dicom_dir[i + 1]
           npat == Len(dicom_dir)
           ds1 == SetTag(patient.ds, "PatientID", new_ID(i, npat))
           ds2 == SetTag(ds1, "PatientName", new_name(i, npat))
           ds3 == SetTag(ds2, "PatientBirthDate", new_dob)
       IN  IF ~(PatientTags \subseteq DOMAIN patient.ds) THEN
              Abort("AttributeError") /\ UNCHANGED <<dicom_dir, paths, i>>
           ELSE
              /\ dicom_dir' = [dicom_dir EXCEPT ![i + 1].ds = ds3]
              /\ paths' = PatientPaths(patient)
              /\ IF PatientPaths(patient) # <<>>
                 THEN pc' = "image" /\ UNCHANGED i
                 ELSE NextPatient(i)
              /\ UNCHANGED <<err, exitcode>>
    /\ UNCHANGED <<files, dirs, argc, input_path, output_path, mode, dicomdir_dirname,
                   stack, curDir, curFiles, files0, dirs0, run, prevOut, call>>

\* One iteration of the loop over the image paths of the current patient.
ImageStep ==
    /\ pc = "image"
    /\ LET p == Head(paths)
           npat == Len(dicom_dir)
           output_image_directory == output_path \o Dirname(p)
           input_image_filename == dicomdir_dirname \o Dirname(p) \o <<Basename(p)>>
           output_image_filename == output_image_directory \o <<Basename(p)>>
           d1 == MakedirsDirs(files, dirs, output_image_directory)
           advance == /\ paths' = Tail(paths)
                      /\ IF Tail(paths) # <<>>
                         THEN pc' = "image" /\ UNCHANGED i
                         ELSE NextPatient(i)
                      /\ UNCHANGED <<err, exitcode>>
       IN  /\ dirs' = d1
           /\ IF ~MakedirsOK(files, output_image_directory) THEN
                 Abort("FileExistsError") /\ UNCHANGED <<files, paths, i, call>>
              ELSE IF ~isfile(input_image_filename) THEN
                 advance /\ UNCHANGED <<files, call>>
              ELSE
                 LET r == anonymiseImageFile(files[input_image_filename],
                                             new_ID(i, npat), new_name(i, npat), new_dob)
                 IN  /\ call' = Called(files[input_image_filename], r)
                     /\ IF ~r.ok THEN
                           Abort(r.err) /\ UNCHANGED <<files, paths, i>>
                        ELSE IF ~SaveOK(d1, output_image_filename) THEN
                           Abort("IsADirectoryError") /\ UNCHANGED <<files, paths, i>>
                        ELSE
                           /\ files' = WriteFile(files, output_image_filename, r.instance)
                           /\ advance
    /\ UNCHANGED <<argc, input_path, output_path, mode, dicom_dir, dicomdir_dirname,
                   stack, curDir, curFiles, files0, dirs0, run, prevOut>>

\* Back in main(): save the index returned by anonymiseDICOMDIR.
SaveIndex ==
    /\ pc = "save"
    /\ LET output_filename == output_path \o <<DICOMDIR>>
       IN  IF SaveOK(dirs, output_filename) THEN
              /\ files' = WriteFile(files, output_filename, Index(dicom_dir))
              /\ pc' = "done" /\ exitcode' = 0 /\ UNCHANGED err
           ELSE
              Abort("IsADirectoryError") /\ UNCHANGED files
    /\ UNCHANGED <<dirs, argc, input_path, output_path, mode, dicom_dir, dicomdir_dirname,
                   i, paths, stack, curDir, curFiles, files0, dirs0, run, prevOut, call>>

\* The orders in which os.walk may descend into the subdirectories it listed.
Orders(S) == {s \in [1..Cardinality(S) -> S] : \A m, n \in DOMAIN s : m # n => s[m] # s[n]}

\* os.walk yields the next directory: it is listed when it is reached; a leaf
\* directory with files gets its mirror created and its files queued.
WalkStep ==
    /\ pc = "walk" /\ stack # <<>>
    /\ LET dirpath == Head(stack)
           dirnames == dirnamesOf(dirpath)
           filenames == filenamesOf(dirpath)
           output_image_directory == output_path \o Relpath(dirpath, input_path)
       IN  IF ~isdir(dirpath) THEN
              /\ stack' = Tail(stack)
              /\ UNCHANGED <<dirs, pc, err, exitcode, curDir, curFiles>>
           ELSE IF filenames # {} /\ dirnames = {} THEN
              /\ dirs' = MakedirsDirs(files, dirs, output_image_directory)
              /\ stack' = Tail(stack)
              /\ IF MakedirsOK(files, output_image_directory)
                 THEN /\ pc' = "files" /\ curDir' = dirpath /\ curFiles' = filenames
                      /\ UNCHANGED <<err, exitcode>>
                 ELSE Abort("FileExistsError") /\ UNCHANGED <<curDir, curFiles>>
           ELSE
              /\ \E order \in Orders(dirnames) : stack' = order \o Tail(stack)
              /\ UNCHANGED <<dirs, pc, err, exitcode, curDir, curFiles>>
    /\ UNCHANGED <<files, argc, input_path, output_path, mode, dicom_dir,
                   dicomdir_dirname, i, paths, files0, dirs0, run, prevOut, call>>

\* One iteration of the loop over the files of a leaf directory, in the
\* order the listing gave them (any order).
FileStep ==
    /\ pc = "files"
    /\ \E input_image_filename \in curFiles :
          LET image_filename == Basename(input_image_filename)
              rel == Relpath(curDir, input_path)
              output_image_filename == output_path \o rel \o <<image_filename>>
              r == anonymiseImageFile(files[input_image_filename], REMOVED, REMOVED, DOB)
          IN  /\ call' = Called(files[input_image_filename], r)
              /\ IF ~r.ok THEN
                    Abort(r.err) /\ UNCHANGED <<files, curFiles>>
                 ELSE IF ~SaveOK(dirs, output_image_filename) THEN
                    Abort("IsADirectoryError") /\ UNCHANGED <<files, curFiles>>
                 ELSE
                    /\ files' = WriteFile(files, output_image_filename, r.instance)
                    /\ curFiles' = curFiles \ {input_image_filename}
                    /\ pc' = IF curFiles' = {} THEN "walk" ELSE "files"
                    /\ UNCHANGED <<err, exitcode>>
    /\ UNCHANGED <<dirs, argc, input_path, output_path, mode, dicom_dir, dicomdir_dirname,
                   i, paths, stack, curDir, files0, dirs0, run, prevOut>>

\* The walk is exhausted: anonymiseDirectory returns and main() returns 0.
WalkDone ==
    /\ pc = "walk" /\ stack = <<>>
    /\ pc' = "done" /\ exitcode' = 0
    /\ UNCHANGED <<files, dirs, argc, input_path, output_path, mode, err, dicom_dir,
                   dicomdir_dirname, i, paths, stack, curDir, curFiles, files0, dirs0, run,
                   prevOut, call>>

\* The tool is run again, on the output of a run that succeeded.
Rerun ==
    /\ pc = "done" /\ run = 1
    /\ run' = 2
    /\ prevOut' = [r \in {Relpath(q, output_path) : q \in FilesUnder(files, output_path)}
                     |-> files[output_path \o r]]
    /\ input_path' = output_path
    /\ output_path' = <<"out2">>
    /\ files0' = files /\ dirs0' = dirs
    /\ pc' = "start" /\ mode' = "none" /\ err' = "none" /\ exitcode' = -1
    /\ dicom_dir' = <<>> /\ dicomdir_dirname' = <<>> /\ i' = 0 /\ paths' = <<>>
    /\ stack' = <<>> /\ curDir' = <<>> /\ curFiles' = {}
    /\ call' = NoCall
    /\ UNCHANGED <<files, dirs, argc>>

----------------------------------------------------------------------------
\* The inputs: file systems, indexes and command lines

Content(present, uid) ==
    Image([t \in present |-> IF t \in OtherTags THEN uid ELSE "orig"])
Full(uid) == Content(AllTags, uid)
Min(uid) == Content(AllTags \ OptionalTags, uid)
NoInst(uid) == Content(AllTags \ {"InstitutionAddress"}, uid)
NoPid(uid) == Content(AllTags \ {"PatientID"}, uid)

NoFiles == [p \in {} |-> Junk]
Merge(f, g) == [p \in DOMAIN f \cup DOMAIN g |-> IF p \in DOMAIN g THEN g[p] ELSE f[p]]
File(p, c) == [q \in {p} |-> c]

\* The image references an index may hold: one segment, several segments, and
\* a name that is also a directory of another reference.
Refs == {Ref1("f"), RefN(<<"a", "f">>), Ref1("a")}

PatientDs(k) == [t \in PatientTags |-> "orig" \o str(k)]

\* The image records of an index, each with its owner, in index order.
Assignments(n) ==
    {s \in UNION {[1..m -> (1..n) \X Refs] : m \in 0..MaxImages} :
        \A k \in 1..(Len(s) - 1) : s[k][1] <= s[k + 1][1]}

OwnedBy(s, k) ==
    LET own == SelectSeq(s, LAMBDA x : x[1] = k)
    IN  [j \in 1..Len(own) |-> own[j][2]]

ImageNodes(refs) == [j \in 1..Len(refs) |-> ImageNode("IMAGE", refs[j])]

\* One study with one series holding every image.
PlainChildren(refs) == <<Node("STUDY", <<Node("SERIES", ImageNodes(refs))>>)>>

\* The same images spread over two studies and several series, among records
\* of other types that hold image references of their own.
MixedChildren(refs) ==
    LET other == ImageNode("PRIVATE", Ref1("g"))
        stray == ImageNode("IMAGE", Ref1("g"))
        first == IF refs = <<>> THEN <<>> ELSE <<Head(refs)>>
        rest == IF refs = <<>> THEN <<>> ELSE Tail(refs)
    IN  << Node("PRIVATE", <<Node("SERIES", <<stray>>)>>),
           Node("STUDY", << Node("PRIVATE", <<stray>>),
                            Node("SERIES", <<other>> \o ImageNodes(first)) >>),
           Node("STUDY", [j \in 1..Len(rest) |-> Node("SERIES", ImageNodes(<<rest[j]>>))]) >>

MkPatient(k, refs, mixed) ==
    [type |-> "PATIENT", ds |-> PatientDs(k),
     children |-> IF mixed THEN MixedChildren(refs) ELSE PlainChildren(refs)]

MkIndex(n, s, mixed) == [k \in 1..n |-> MkPatient(k, OwnedBy(s, k), mixed)]

Indexes ==
    UNION {{MkIndex(n, s, mixed) : s \in Assignments(n), mixed \in BOOLEAN} :
           n \in 0..MaxPatients}

\* An index whose last patient record has no birth date.
NoBirthDate(idx) ==
    [idx EXCEPT ![Len(idx)].ds = [t \in PatientTags \ {"PatientBirthDate"} |-> "orig"]]

In == <<"in">>
Out == <<"out">>

\* The image files beside an index.
IndexLayouts ==
    {Merge(Merge(File(In \o <<"g">>, Full("g")), lf), la) :
        lf \in {NoFiles, File(In \o <<"f">>, Full("f")), File(In \o <<"f">>, Junk)},
        la \in {NoFiles, File(In \o <<"a">>, Full("a")),
                File(In \o <<"a", "f">>, Min("af")),
                File(In \o <<"a", "f">>, NoInst("af")),
                File(In \o <<"a", "f">>, NoPid("af"))}}

\* The trees given to the directory walk.
DirLayouts ==
    {Merge(Merge(Merge(Merge(l1, l2), l3), l4), l5) :
        l1 \in {NoFiles, File(In \o <<"f">>, Full("f")), File(In \o <<"f">>, Junk)},
        l2 \in {NoFiles, File(In \o <<"g">>, Min("g"))},
        l3 \in {NoFiles, File(In \o <<"a", "f">>, Full("af")), File(In \o <<"a", "f">>, Junk)},
        l4 \in {NoFiles, File(In \o <<"a", "b", "f">>, Full("abf")),
                File(In \o <<"a", "b", "f">>, NoInst("abf"))},
        l5 \in {NoFiles, File(In \o <<"c", "f">>, Full("cf")), File(In \o <<"c", "f">>, Junk)}}

DirsOf(fs, edirs) ==
    UNION {Prefixes(Dirname(p)) : p \in DOMAIN fs} \cup UNION {Prefixes(d) : d \in edirs}
        \cup {<<>>}

Setup(fs, edirs, inp, outp, n) ==
    /\ files = fs /\ dirs = DirsOf(fs, edirs) /\ files0 = fs /\ dirs0 = DirsOf(fs, edirs)
    /\ argc = n /\ input_path = inp /\ output_path = outp
    /\ pc = "start" /\ mode = "none" /\ err = "none" /\ exitcode = -1
    /\ dicom_dir = <<>> /\ dicomdir_dirname = <<>> /\ i = 0 /\ paths = <<>>
    /\ stack = <<>> /\ curDir = <<>> /\ curFiles = {}
    /\ run = 1 /\ prevOut = NoFiles /\ call = NoCall

\* What may already be at the output path.
OutputStates == {NoFiles, File(Out \o <<"old">>, Full("old")), File(Out, Full("old"))}

\* A directory holding an index beside its image files.
InitIndex ==
    \E idx \in Indexes, lay \in IndexLayouts :
        Setup(Merge(lay, File(In \o <<DICOMDIR>>, Index(idx))), {In}, In, Out, 3)

\* The index file given by its own path, and an output directory inside the
\* input directory.
InitIndexPaths ==
    \E idx \in {x \in Indexes : \A k \in 1..Len(x) : Len(x[k].children) = 1},
       lay \in {l \in IndexLayouts : In \o <<"f">> \in DOMAIN l /\ l[In \o <<"f">>] # Junk
                                     /\ \E p \in DOMAIN l : Len(p) > 1 /\ p[Len(In) + 1] = "a"},
       io \in {<<In \o <<DICOMDIR>>, Out>>, <<In, In \o <<"o">>>>} :
        Setup(Merge(lay, File(In \o <<DICOMDIR>>, Index(idx))), {In}, io[1], io[2], 3)

\* Indexes with an incomplete patient record, other output paths, and an index
\* file under another name.
InitIndexOther ==
    \E idx \in {x \in Indexes : Len(x) = MaxPatients /\ \A k \in 1..Len(x) :
                                    Len(PatientPaths(x[k])) = 1},
       lay \in {l \in IndexLayouts : In \o <<"a", "f">> \in DOMAIN l} :
        \/ Setup(Merge(lay, File(In \o <<DICOMDIR>>, Index(NoBirthDate(idx)))),
                 {In}, In, Out, 3)
        \/ \E os \in OutputStates :
              Setup(Merge(Merge(lay, File(In \o <<DICOMDIR>>, Index(idx))), os),
                    {In}, In, Out, 3)
        \/ \E outp \in {In, In \o <<"a">>} :
              Setup(Merge(lay, File(In \o <<DICOMDIR>>, Index(idx))), {In}, In, outp, 3)
        \/ Setup(Merge(lay, File(In \o <<"xDICOMDIR">>, Index(idx))),
                 {In}, In \o <<"xDICOMDIR">>, Out, 3)

\* A directory without an index.
InitDirectory ==
    \E lay \in DirLayouts, edirs \in {{In}, {In, In \o <<"e">>}} :
        \/ \E os \in OutputStates : Setup(Merge(lay, os), edirs, In, Out, 3)
        \/ \E outp \in {In, In \o <<"o">>, In \o <<"a">>} : Setup(lay, edirs, In, outp, 3)

\* One file, which may be an image, may not be DICOM, and may be named like an index.
InitSingleFile ==
    \E name \in {"f", "xDICOMDIR", DICOMDIR},
       c \in {Full("f"), Min("f"), NoInst("f"), NoPid("f"), Junk},
       os \in OutputStates, outp \in {Out, In} :
        Setup(Merge(File(In \o <<name>>, c), os), {In}, In \o <<name>>, outp, 3)

\* An input that does not exist, and a command line that is too short.
InitNoInput ==
    \E n \in {1, 2, 3} : Setup(File(In \o <<"f">>, Full("f")), {In}, <<"nowhere">>, Out, n)

Init == InitIndex \/ InitIndexPaths \/ InitIndexOther \/ InitDirectory \/ InitSingleFile \/ InitNoInput

Next ==
    \/ Usage \/ Preflight
    \/ DispatchIndexFile \/ DispatchIndexDir \/ DispatchDirectory
    \/ DispatchSingleFile \/ DispatchUnsupported
    \/ PatientStep \/ ImageStep \/ SaveIndex
    \/ WalkStep \/ FileStep \/ WalkDone
    \/ Rerun

Spec == Init /\ [][Next]_vars

----------------------------------------------------------------------------
\* Properties

IndexMode == mode \in {"index_file", "index_dir"}
OutRel == {Relpath(q, output_path) : q \in FilesUnder(files, output_path)}
Identity(ds) == [t \in PatientTags |-> ds[t]]
Redacted(c) ==
    /\ c.kind = "image" /\ PatientTags \subseteq DOMAIN c.ds
    /\ c.ds["PatientID"] = "REMOVED" /\ c.ds["PatientName"] = "REMOVED"
    /\ c.ds["PatientBirthDate"] = "99991231"

\* The file system main() hands to the mode it dispatches to: the output
\* directory removed and created again.
FilesAtCall == RmtreeFiles(files0, output_path)
DirsAtCall == RmtreeDirs(dirs0, output_path) \cup Prefixes(output_path)

\* C1: single-file mode with an output path that did not exist: the run ends
\* with exit code 0 and the output path is a regular file holding the record
\* with the fixed identity.
C1_SingleFileOutput ==
    (mode = "single" /\ call.ok /\ output_path \notin dirs0
        /\ output_path \notin DOMAIN files0)
    => /\ pc = "done" /\ exitcode = 0
       /\ isfile(output_path)
       /\ Redacted(files[output_path])

\* C2: every file that was under the input path before the run is still there
\* with the same content, in every state of the run.
C2_InputNeverModified ==
    \A q \in DOMAIN files0 :
        IsPrefix(input_path, q) => q \in DOMAIN files /\ files[q] = files0[q]

\* The image paths of every patient record of the index, and the patient
\* records that own an image record referencing r.
AllPaths == [k \in 1..Len(dicom_dir) |-> PatientPaths(dicom_dir[k])]
OwnersIn(pp, r) == {k \in DOMAIN pp : \E j \in 1..Len(pp[k]) : pp[k][j] = r}
IndexDone == IndexMode /\ pc = "done"
OutIndex == files[output_path \o <<DICOMDIR>>]
OutImages == FilesUnder(files, output_path) \ {output_path \o <<DICOMDIR>>}
MaxOf(S) == CHOOSE m \in S : \A n \in S : n <= m

\* C3 as stated: after an index run, every image file of the output carries
\* the identity of each patient record that owns an image record referencing it.
C3_OwnerIdentity ==
    IndexDone =>
        LET pp == AllPaths
        IN  \A q \in OutImages : \A k \in OwnersIn(pp, Relpath(q, output_path)) :
                Identity(files[q].ds) = Identity(OutIndex.patients[k].ds)

\* C3 amended: after an index run, every image file of the output is referenced
\* by the index and carries the identity, as the output index has it, of the
\* last patient record in index order that owns an image record referencing it.
C3_LastOwnerIdentity ==
    IndexDone =>
        LET pp == AllPaths
        IN  /\ OutIndex = Index(dicom_dir)
            /\ \A q \in OutImages :
                  LET own == OwnersIn(pp, Relpath(q, output_path))
                  IN  /\ own # {}
                      /\ files[q].kind = "image"
                      /\ PatientTags \subseteq DOMAIN files[q].ds
                      /\ Identity(files[q].ds) = Identity(OutIndex.patients[MaxOf(own)].ds)

C3_Witness ==
    /\ IndexDone
    /\ \E q \in OutImages : Cardinality(OwnersIn(AllPaths, Relpath(q, output_path))) > 1

DigitVal(ch) == CHOOSE d \in 0..9 : Digit(d) = ch
IsDigit(ch) == \E d \in 0..9 : Digit(d) = ch
RECURSIVE ParseNat(_)
ParseNat(s) ==
    IF Len(s) = 0 THEN 0
    ELSE ParseNat(SubSeq(s, 1, Len(s) - 1)) * 10 + DigitVal(SubSeq(s, Len(s), Len(s)))
AllDigits(s) == \A n \in 1..Len(s) : IsDigit(SubSeq(s, n, n))

\* s is "REMOVED - " followed by the decimal numeral of n.
HasOrdinal(s, n) ==
    LET head == "REMOVED - "
        tail == SubSeq(s, Len(head) + 1, Len(s))
    IN  /\ Len(s) > Len(head)
        /\ SubSeq(s, 1, Len(head)) = head
        /\ AllDigits(tail) /\ ParseNat(tail) = n

Returned == IndexMode /\ pc \in {"save", "done"}

\* C4: when anonymiseDICOMDIR has returned, with more than one patient record
\* the record at ordinal n has ID and name "REMOVED - n", so the identifiers are
\* pairwise distinct; a single record has ID and name "REMOVED"; the birth date
\* is "99991231" in both cases.
C4_ReplacementIdentity ==
    Returned =>
        LET npat == Len(dicom_dir)
        IN  /\ \A k \in 1..npat :
                  LET ds == dicom_dir[k].ds
                  IN  /\ ds["PatientBirthDate"] = "99991231"
                      /\ IF npat > 1
                         THEN /\ HasOrdinal(ds["PatientID"], k - 1)
                              /\ HasOrdinal(ds["PatientName"], k - 1)
                         ELSE /\ ds["PatientID"] = "REMOVED"
                              /\ ds["PatientName"] = "REMOVED"
            /\ \A k, l \in 1..npat :
                  k # l => dicom_dir[k].ds["PatientID"] # dicom_dir[l].ds["PatientID"]

C4_Witness ==
    /\ Returned /\ pc = "done" /\ Len(dicom_dir) > 1
    /\ dicom_dir[Len(dicom_dir)].ds["PatientID"] = "REMOVED - " \o str(Len(dicom_dir) - 1)
    /\ dicom_dir[1].ds["PatientName"] = "REMOVED - 0"

\* The mode the classification of the claim gives, by exact index-file name.
ClaimedMode ==
    IF isfile(input_path) /\ Basename(input_path) = "DICOMDIR" THEN "index_file"
    ELSE IF isdir(input_path) /\ isfile(input_path \o <<"DICOMDIR">>) THEN "index_dir"
    ELSE IF isdir(input_path) THEN "directory"
    ELSE IF isfile(input_path) THEN "single"
    ELSE "unsupported"

\* C5: the entry point runs exactly the mode of the first matching rule; only a
\* file named exactly as the index file is processed as an index file.
C5_Classification == [][pc = "dispatch" => mode' = ClaimedMode]_vars

\* The files of the input whose directory has no subdirectory.
LeafFiles ==
    {q \in DOMAIN FilesAtCall :
        /\ IsPrefix(input_path, q)
        /\ ~\E d \in DirsAtCall : Len(d) = Len(q) /\ Dirname(d) = Dirname(q)}

\* C6: after the directory walk has completed, the output holds a file at a
\* relative path exactly when the input has a file there in a leaf directory.
C6_OutputSet ==
    (mode = "directory" /\ pc = "done")
    => OutRel = {Relpath(q, input_path) : q \in LeafFiles}

\* C7: an index run never fails at an image record whose referenced path is not
\* an existing file: such a record is skipped.
C7_MissingSkipped ==
    (IndexMode /\ pc = "aborted" /\ paths # <<>>)
    => isfile(dicomdir_dirname \o Head(paths))

Traversal == Flatten(AllPaths)
RECURSIVE PathsBefore(_, _)
PathsBefore(pp, n) == IF n = 0 THEN 0 ELSE PathsBefore(pp, n - 1) + Len(pp[n])
Handled ==
    LET pp == AllPaths
    IN  PathsBefore(pp, i) + (IF paths # <<>> THEN Len(pp[i + 1]) - Len(paths) ELSE 0)
Source(p) == dicomdir_dirname \o p
Unusable(c) == c.kind = "junk" \/ ~(PatientTags \subseteq DOMAIN c.ds)

C10_InstitutionUnconditional ==
    (call.made /\ call.arg.kind # "junk" /\ PatientTags \subseteq DOMAIN call.arg.ds)
    => /\ call.ok
       /\ \A t \in InstitutionTags :
             t \in DOMAIN call.instance.ds /\ call.instance.ds[t] = "REMOVED"
       /\ \A t \in OptionalTags : t \in DOMAIN call.instance.ds <=> t \in DOMAIN call.arg.ds

====
